---- MODULE Spec2Model ----
(***************************************************************************)
(* A model of kincaid (src/src/lib.rs): the tokenizer (word, sentence and  *)
(* vowel-group patterns), the syllable estimator with its ADD and SUB      *)
(* exception tables, the Scorer accumulator, the two score formulas and    *)
(* the ReadingEase descriptor lookup.                                      *)
(*                                                                         *)
(* A text is a sequence of one-character strings.  f64 values are modelled *)
(* as extended rationals (a finite fraction, +inf, -inf or NaN); the       *)
(* rounding of f64 arithmetic is not modelled.                             *)
(***************************************************************************)
EXTENDS Integers, Sequences, FiniteSets, Bags

VARIABLES
  scorer,    \* the Scorer under test: [words, syllables, sentences]
  adds,      \* ghost: the number of add calls made on scorer
  hist,      \* ghost: the bag of the texts added to scorer (SpecOrder)
  input,     \* the caller's texts, fixed at Init (SpecSeam, SpecOneShot)
  joined,    \* a second Scorer, for the concatenation of input (SpecSeam)
  joinedAdds,\* ghost: the number of add calls made on joined
  ret,       \* the last call: [call, arg, n, val], n being the adds made to
             \* the Scorer it read and val what it returned
  kept,      \* a returned value the caller has kept: a copy of ret
  self,      \* the ReadingEase description() was last called on
  checks,    \* ghost: the band checks of description() that self satisfies
  ub         \* TRUE once unreachable_unchecked() has been executed

vars == <<scorer, adds, hist, input, joined, joinedAdds, ret, kept, self,
          checks, ub>>

-----------------------------------------------------------------------------
(* Bounds of the model.                                                    *)

\* The longest text handed to add and to the one-shot calls, but for the
\* concatenation of SpecSeam.
MaxLen == 2
\* The longest text handed to add in Spec.
MaxAddLen == 3
\* The longest text handed to sentence_count.
MaxSentenceLen == 4
\* The most add calls made on the Scorer of Spec.
MaxAdds == 2
\* The most add calls made on the Scorer of SpecOrder.
MaxChunks == 2
\* The longest word handed to syllables_in_word.
MaxWordLen == 4
\* description() is tried on every k / GridDen of [0, 100].
GridDen == 2

-----------------------------------------------------------------------------
(* Characters.                                                             *)

LowerLetters ==
  {"a","b","c","d","e","f","g","h","i","j","k","l","m",
   "n","o","p","q","r","s","t","u","v","w","x","y","z"}
UpperLetters == {"E", "I"}
Digits == {"0","1","2","3","4","5","6","7","8","9"}

\* Simple case folding, as the case_insensitive(true) builders apply it.
Fold(c) == IF c = "E" THEN "e" ELSE IF c = "I" THEN "i" ELSE c

\* \p{L}
IsLetter(c) == c \in LowerLetters \cup UpperLetters
\* \w, the class \b is defined by: letters, digits and the underscore.
IsWordChar(c) == IsLetter(c) \/ c \in Digits \/ c = "_"

\* The characters texts are built from: two letters, a digit, a joiner, two
\* sentence terminals and a blank.
TextChars == {"i", "o", "5", "-", ".", "?", " "}
\* The characters of the texts of SpecSeam: one of each kind.
SeamChars == {"i", "5", "-", ".", " "}
\* The characters of the texts of SpecSentence.
SentenceChars == {".", "?", "!", "i", " "}
\* The characters of the texts of Spec and SpecOrder.
ChunkChars == {"i", "o", "."}
\* The characters words are built from.
WordChars == {"p", "r", "e", "i", "o", "E", "-", "'"}

\* The strings over chars of length n at most.
Strings(chars, n) ==
  LET upTo[k \in 0..n] ==
        IF k = 0 THEN {<< >>}
        ELSE upTo[k - 1] \cup
             {Append(s, c) : s \in {x \in upTo[k - 1] : Len(x) = k - 1},
                             c \in chars}
  IN  upTo[n]

\* \b at offset k of t, i.e. between t[k] and t[k+1].
Boundary(t, k) ==
  LET before == k >= 1 /\ IsWordChar(t[k])
      after == k < Len(t) /\ IsWordChar(t[k + 1])
  IN  before # after

-----------------------------------------------------------------------------
(* The pattern tables.  A pattern is given by its alternatives (an         *)
(* optional item x? yields one alternative with x and one without); an     *)
(* alternative is a sequence of character classes and WB, which is \b.     *)

WB == {"\\b"}

\* SUB_PATTERNS, in source order; 74 patterns.
SUB_PATTERNS ==
  <<
    << <<{"e"}, WB>> >>,
    << <<{"e"}, {"y"}, WB>> >>,
    << <<{"e"}, {"d"}, WB>> >>,
    << <<{"a"}, {"y"}, WB>> >>,
    << <<{"b","d","k","m","n","p","r","t","v","w"}, {"e"}, {"s"}, WB>> >>,
    << <<{"e"}, {"l"}, {"y"}, WB>> >>,
    << <<{"o"}, {"y"}, WB>> >>,
    << <<{"c"}, {"i"}, {"a"}>> >>,
    << <<{"a","e","i","l","o","u","y"}, {"l"}, {"e"}, WB>> >>,
    << <<{"t"}, {"i"}, {"a"}, {"l","n"}, WB>>, <<{"t"}, {"i"}, {"a"}, WB>> >>,
    << <<{"t"}, {"i"}, {"a"}, {"l","n"}, {"s"}, WB>>, <<{"t"}, {"i"}, {"a"}, WB>> >>,
    << <<{"a","e","o"}, {"y"}, {"m"}>> >>,
    << <<{"e"}, {"n"}, {"e"}, {"s"}, {"s"}, WB>> >>,
    << <<WB, {"f"}, {"o"}, {"r"}, {"e"}>> >>,
    << <<{"a"}, {"y"}, {"b","c","l","n","r","t","w"}>> >>,
    << <<{"e"}, {"m"}, {"e"}, {"n"}, {"t"}>> >>,
    << <<{"i"}, {"l"}, {"e"}, {"s"}, WB>> >>,
    << <<{"a","o"}, {"l"}, {"e"}, {"s"}, WB>> >>,
    << <<{"e"}, {"m"}, {"a"}, {"n"}, WB>> >>,
    << <<{"a"}, {"y"}, {"i"}, {"n"}, {"g"}, WB>> >>,
    << <<{"o"}, {"y"}, {"c","l","n"}>> >>,
    << <<{"e"}, {"f"}, {"u"}, {"l"}>> >>,
    << <<WB, {"e"}, {"y"}>> >>,
    << <<{"g"}, {"e"}, {"o"}, {"n"}>> >>,
    << <<WB, {"h"}, {"o"}, {"m"}, {"e"}>> >>,
    << <<{"e"}, {"y"}, {"n"}>> >>,
    << <<{"i"}, {"c"}, {"a"}, {"l"}, {"l"}, {"y"}>> >>,
    << <<{"e"}, {"l"}, {"e"}, {"s"}, {"s"}>> >>,
    << <<{"s"}, {"i"}, {"a"}, {"n"}, WB>> >>,
    << <<{"y"}, {"l"}, {"e"}, {"s"}>> >>,
    << <<WB, {"w"}, {"h"}, {"i"}, {"t"}, {"e"}>> >>,
    << <<{"e"}, {"w"}, {"a"}, {"y"}>> >>,
    << <<{"g"}, {"e"}, {"o"}, {"r"}, {"g"}>> >>,
    << <<{"l"}, {"l"}, {"e"}, {"s"}, WB>> >>,
    << <<{"b"}, {"u"}, {"s"}, {"i"}, {"n"}, {"e"}>> >>,
    << <<{"i"}, {"l"}, {"l"}, {"i"}, {"a"}>> >>,
    << <<{"u"}, {"l"}, {"e"}, {"s"}, WB>> >>,
    << <<WB, {"h"}, {"y"}, {"m"}>> >>,
    << <<{"r"}, {"y"}, {"s"}, {"t"}>> >>,
    << <<{"e"}, {"y"}, {"l"}>> >>,
    << <<{"e"}, {"h"}, {"o"}, {"u"}>> >>,
    << <<{"e"}, {"y"}, {"w"}>> >>,
    << <<{"e"}, {"k"}, {"e"}, {"e"}, {"p"}>> >>,
    << <<{"p"}, {"e"}, {"o"}, {"p"}, {"l"}, {"e"}>> >>,
    << <<{"e"}, {"v"}, {"e"}, {"r"}, {"y"}>> >>,
    << <<WB, {"l"}, {"i"}, {"f"}, {"e"}>> >>,
    << <<{"g"}, {"i"}, {"u"}>> >>,
    << <<{"e"}, {"y"}, {"i"}, {"n"}>> >>,
    << <<{"e"}, {"o"}, {"u"}, {"t"}>> >>,
    << <<{"o"}, {"y"}, {"i"}, {"n"}, {"g"}, WB>> >>,
    << <<{"g"}, {"u"}, {"e"}, {"s"}, WB>> >>,
    << <<WB, {"r"}, {"e"}, {"i"}, {"n"}, {"e"}>> >>,
    << <<{"g"}, {"e"}, {"o"}, {"u"}>> >>,
    << <<{"q"}, {"u"}, {"e"}, {"s"}, WB>> >>,
    << <<{"v"}, {"i"}, {"o"}, {"r"}>> >>,
    << <<{"s"}, {"e"}, {"w"}, {"o"}>> >>,
    << <<{"o"}, {"s"}, {"e"}, {"b"}>> >>,
    << <<{"e"}, {"y"}, {"c"}>> >>,
    << <<WB, {"s"}, {"p"}, {"a"}, {"c"}, {"e"}>> >>,
    << <<WB, {"s"}, {"t"}, {"o"}, {"n"}, {"e"}>> >>,
    << <<{"e"}, {"o"}, {"v"}, {"e"}, {"r"}>> >>,
    << <<{"e"}, {"h"}, {"o"}, {"l"}>> >>,
    << <<{"i"}, {"l"}, {"i"}, {"a"}, {"r"}>> >>,
    << <<{"e"}, {"s"}, {"t"}, {"o"}, {"n"}, {"e"}>> >>,
    << <<{"e"}, {"y"}, {"b"}>> >>,
    << <<{"o"}, {"y"}, {"k"}>> >>,
    << <<{"v"}, {"e"}, {"l"}, {"a"}, {"n"}>> >>,
    << <<{"p"}, {"i"}, {"e"}, {"t"}>> >>,
    << <<WB, {"g"}, {"i"}, {"a"}>> >>,
    << <<{"s"}, {"o"}, {"m"}, {"e"}, {"t"}>> >>,
    << <<{"e"}, {"s"}, {"v"}, {"i"}, {"l"}>> >>,
    << <<{"l"}, {"y"}, {"s"}, {"t"}>> >>,
    << <<{"a"}, {"r"}, {"r"}, {"i"}, {"a"}, {"g"}>> >>,
    << <<{"g"}, {"i"}, {"o"}, {"r"}>> >>
  >>

\* ADD_PATTERNS, in source order; 133 patterns.
ADD_PATTERNS ==
  <<
    << <<{"y"}, WB>> >>,
    << <<{"i"}, {"a"}>> >>,
    << <<WB, {"m"}, {"c"}>> >>,
    << <<{"i","l"}, {"e"}, WB>> >>,
    << <<{"t"}, {"e"}, {"d"}, WB>> >>,
    << <<{"e"}, {"e"}, WB>> >>,
    << <<{"i"}, {"o"}, WB>> >>,
    << <<{"d"}, {"e"}, {"d"}, WB>> >>,
    << <<{"i","o"}, {"e"}, {"r"}, WB>> >>,
    << <<{"y"}, {"b","c","g","k","l","m","n","r","s","t","v","w","x"}>> >>,
    << <<{"s"}, {"m"}, {"s"}, WB>>, <<{"s"}, {"m"}, WB>> >>,
    << <<{"e"}, {"o"}>> >>,
    << <<{"e","i","o","r"}, {"e"}, {"d"}, WB>> >>,
    << <<{"i"}, {"o"}, {"l"}>> >>,
    << <<WB, {"h"}, {"y"}>> >>,
    << <<{"i"}, {"u"}>> >>,
    << <<{"s"}, {"'"}>> >>,
    << <<{"o"}, {"e"}, WB>> >>,
    << <<{"i"}, {"o"}, {"t"}>> >>,
    << <<{"t"}, {"u"}, {"a"}>> >>,
    << <<{"a"}, {"u"}, {"e"}>> >>,
    << <<{"e"}, {"a"}, WB>> >>,
    << <<{"i"}, {"e"}, {"s"}, {"t"}, WB>> >>,
    << <<{"i"}, {"o"}, {"s"}>> >>,
    << <<{"y"}, {"s"}, {"t"}>> >>,
    << <<{"n"}, {"t"}, {"e"}, WB>> >>,
    << <<{"c"}, {"e"}, {"'"}, {"s"}>> >>,
    << <<{"y"}, {"i"}, {"n"}, {"g"}, WB>> >>,
    << <<{"b","c","d","f","g","k","o","p","t"}, {"l"}, {"e"}, {"d"}, WB>> >>,
    << <<{"c"}, {"i"}, {"a"}, {"t"}>> >>,
    << <<{"l"}, {"e"}, {"m"}, {"e"}, {"n"}, {"t"}>> >>,
    << <<{"t"}, {"y"}, {"p"}>> >>,
    << <<{"l"}, {"y"}, {"d","e","h","o","p","s"}>> >>,
    << <<{"d","r","v"}, {"i"}, {"o"}, {"u"}, {"s"}>> >>,
    << <<{"z"}, {"'"}, {"s"}, WB>> >>,
    << <<{"a"}, {"e"}, WB>> >>,
    << <<{"i"}, {"o"}, {"m","p","r"}>> >>,
    << <<{"t"}, {"r"}, {"e"}, WB>> >>,
    << <<{"i"}, {"o"}, {"n"}, {"e"}, WB>> >>,
    << <<{"c","d","e","h","l","n","o","r"}, {"u"}, {"e"}, WB>> >>,
    << <<{"s"}, {"e"}, {"'"}, {"s"}>> >>,
    << <<{"n"}, {"u"}, {"a"}>> >>,
    << <<{"x"}, {"'"}>> >>,
    << <<{"o"}, {"i"}, {"n"}, {"g"}>> >>,
    << <<{"y"}, {"z"}>> >>,
    << <<{"c"}, {"r"}, {"e"}, {"a"}, {"t"}>> >>,
    << <<{"l"}, {"u"}, {"a"}>> >>,
    << <<{"i"}, {"o"}, {"d"}>> >>,
    << <<WB, {"r"}, {"e"}, {"a"}, {"s"}, {"s"}>> >>,
    << <<{"e"}, {"i"}, {"n"}, {"g"}, WB>> >>,
    << <<{"d"}, {"u"}, {"a"}>> >>,
    << <<{"b","d","p","r","z"}, {"i"}, {"o"}, {"n"}>> >>,
    << <<{"i"}, {"e"}, {"l"}, {"l"}, {"o"}, WB>> >>,
    << <<{"o"}, {"a"}, WB>> >>,
    << <<{"g"}, {"e"}, {"'"}, {"s"}>> >>,
    << <<{"p"}, {"h"}, {"y"}, {"s"}>> >>,
    << <<{"e"}, {"a"}, {"c"}, {"t"}>> >>,
    << <<{"i"}, {"o"}, {"c"}>> >>,
    << <<{"i"}, {"o"}, {"g"}>> >>,
    << <<{"s"}, {"c"}, {"i"}, {"e"}, {"n"}>> >>,
    << <<{"d"}, {"y"}, {"s"}>> >>,
    << <<{"u"}, {"o"}, {"u"}>> >>,
    << <<WB, {"r"}, {"e"}, {"i"}, {"n"}>> >>,
    << <<{"i"}, {"e"}, {"n"}, {"n"}>> >>,
    << <<{"r"}, {"y"}, {"a"}>> >>,
    << <<{"b"}, {"r"}, {"e"}, WB>> >>,
    << <<{"t"}, {"k"}, {"e"}, WB>> >>,
    << <<{"r"}, {"y"}, {"d"}>> >>,
    << <<{"s"}, {"h"}, {"'"}, {"s"}, WB>> >>,
    << <<{"r"}, {"u"}, {"a"}>> >>,
    << <<{"r"}, {"y"}, {"p"}>> >>,
    << <<{"r"}, {"i"}, {"e"}, {"n"}, {"t"}>> >>,
    << <<{"u"}, {"i"}, {"n"}, {"g"}>> >>,
    << <<{"x"}, {"u"}, {"a"}, {"l"}>> >>,
    << <<{"e"}, {"e"}, {"l"}, {"y"}, WB>> >>,
    << <<{"l"}, {"e"}, {"m"}, {"a"}, {"n"}, WB>> >>,
    << <<{"f"}, {"l"}, {"u"}, {"e"}, {"n"}>> >>,
    << <<{"h"}, {"e"}, {"'"}>> >>,
    << <<{"d"}, {"r"}, {"e"}, WB>> >>,
    << <<{"i"}, {"e"}, {"t"}>> >>,
    << <<{"l"}, {"o"}, {"u"}, {"i"}>> >>,
    << <<{"d"}, {"l"}, WB>> >>,
    << <<WB, {"i"}, {"o"}>> >>,
    << <<{"r"}, {"y"}, {"s"}>> >>,
    << <<{"t"}, {"u"}, {"i"}>> >>,
    << <<{"r"}, {"y"}, {"e"}>> >>,
    << <<WB, {"c"}, {"o"}, {"e"}>> >>,
    << <<WB, {"r"}, {"e"}, {"a"}, {"l"}, {"i"}>> >>,
    << <<{"n"}, {"t"}, {"e"}, {"s"}, WB>> >>,
    << <<{"c"}, {"h"}, {"'"}>> >>,
    << <<{"m"}, {"y"}, {"e"}>> >>,
    << <<{"e"}, {"e"}, {"m"}, {"a"}, {"n"}, WB>> >>,
    << <<{"r"}, {"y"}, {"o"}>> >>,
    << <<{"l"}, {"i"}, {"n"}, {"e"}, {"a"}>> >>,
    << <<{"t"}, {"h"}, {"e"}, {"a"}, {"t"}>> >>,
    << <<{"r"}, {"e"}, {"a"}, {"p"}, {"p"}>> >>,
    << <<{"o"}, {"e"}, {"r"}, {"s"}, WB>> >>,
    << <<{"t"}, {"y"}, {"s"}>> >>,
    << <<WB, {"c"}, {"y"}, {"p"}>> >>,
    << <<{"e"}, {"e"}, {"m"}, {"p"}>> >>,
    << <<{"n"}, {"y"}, {"s"}>> >>,
    << <<{"a"}, {"i"}, {"c"}, WB>> >>,
    << <<{"c"}, {"u"}, {"a"}>> >>,
    << <<{"t"}, {"l"}, WB>> >>,
    << <<{"t"}, {"r"}, {"e"}, {"s"}, WB>> >>,
    << <<{"c"}, {"i"}, {"a"}, {"n"}, {"o"}>> >>,
    << <<{"l"}, {"i"}, {"o"}, {"n"}, {"e"}>> >>,
    << <<{"e"}, {"a"}, {"n"}, {"d"}>> >>,
    << <<WB, {"d"}, {"y"}, {"a"}>> >>,
    << <<{"g"}, {"y"}, {"p"}>> >>,
    << <<{"c"}, {"r"}, {"o"}, {"a"}, {"t"}>> >>,
    << <<{"h"}, {"e"}, {"r"}, {"o"}, {"i"}>> >>,
    << <<{"r"}, {"e"}, {"a"}, {"r"}, {"r"}>> >>,
    << <<{"e"}, {"e"}, {"x"}>> >>,
    << <<{"c"}, {"r"}, {"e"}, WB>> >>,
    << <<{"o"}, {"n"}, {"i"}, {"o"}, {"u"}>> >>,
    << <<{"e"}, {"u"}, {"m"}, WB>> >>,
    << <<{"f"}, {"r"}, {"e"}, {"d"}, WB>> >>,
    << <<{"d"}, {"i"}, {"e"}, {"n"}>> >>,
    << <<{"o"}, {"u"}, {"a"}>> >>,
    << <<{"o"}, {"i"}, {"n"}, {"c"}, {"i"}, {"d"}>> >>,
    << <<{"c"}, {"o"}, {"o"}, {"r"}, {"d"}, {"i"}>> >>,
    << <<{"n"}, {"u"}, {"c"}, {"l"}, {"e"}>> >>,
    << <<{"n"}, {"y"}, {"d"}>> >>,
    << <<WB, {"r"}, {"e"}, {"e"}, {"n"}>> >>,
    << <<WB, {"r"}, {"e"}, {"u"}, {"n"}>> >>,
    << <<{"b"}, {"y"}, {"s"}>> >>,
    << <<{"i"}, {"a"}, {"l"}, {"e"}, WB>> >>,
    << <<{"i"}, {"f"}, {"i"}, {"e"}, {"r"}, {"s"}>> >>,
    << <<{"r"}, {"e"}, {"a"}, {"n"}>> >>,
    << <<{"p"}, {"r"}, {"e"}, WB>> >>,
    << <<{"i"}, {"o"}, {"r"}, {"e"}, WB>> >>,
    << <<{"-"}, {"i"}, {"n"}, WB>> >>
  >>

-----------------------------------------------------------------------------
(* Matching.                                                               *)

\* The offset item j of alt is tried at when alt is tried at offset k: every
\* class before it takes one character, \b takes none.
ItemOffset(alt, j, k) == k + Cardinality({i \in 1..(j - 1) : alt[i] # WB})

\* Alternative alt matches t starting at offset k.
MatchAt(alt, t, k) ==
  \A j \in DOMAIN alt :
    LET at == ItemOffset(alt, j, k)
    IN  IF alt[j] = WB THEN Boundary(t, at)
        ELSE at < Len(t) /\ Fold(t[at + 1]) \in alt[j]

Max(S) == CHOOSE x \in S : \A y \in S : y <= x
Min(S) == CHOOSE x \in S : \A y \in S : x <= y

\* Regex::is_match: the pattern matches somewhere in t.
IsMatch(pattern, t) ==
  \E a \in DOMAIN pattern : \E k \in 0..Len(t) : MatchAt(pattern[a], t, k)

\* The characters of the model, folded.
ModelChars ==
  {Fold(c) : c \in TextChars \cup SeamChars \cup SentenceChars \cup ChunkChars
                 \cup WordChars}

\* The patterns of a set that can match a text over ModelChars at all: those
\* with an alternative every class of which holds one of these characters.
\* Only these are tried; the others match no text of the model.
Spellable(set) ==
  {p \in DOMAIN set :
     \E a \in DOMAIN set[p] :
       \A j \in DOMAIN set[p][a] :
         set[p][a][j] = WB \/ set[p][a][j] \cap ModelChars # {}}
SUB_SPELLABLE == Spellable(SUB_PATTERNS)
ADD_SPELLABLE == Spellable(ADD_PATTERNS)

\* RegexSet::matches(t).iter().count(): the number of patterns of the set
\* that match t.
SetMatchCount(set, spellable, t) ==
  Cardinality({p \in spellable : IsMatch(set[p], t)})

\* The end of the longest run of characters of class that starts at index i
\* of t (i - 1 when t[i] is not of the class).
RunEnd(t, i, class) ==
  Max({i - 1} \cup {e \in i..Len(t) : \A k \in i..e : Fold(t[k]) \in class})

\* find_iter(t).count() for a pattern [class]+: the leftmost match from the
\* search position, greedy, then on from the end of that match.
ClassRunCount(t, class) ==
  LET count[from \in 1..(Len(t) + 1)] ==
        LET starts == {i \in from..Len(t) : Fold(t[i]) \in class}
        IN  IF starts = {} THEN 0
            ELSE 1 + count[RunEnd(t, Min(starts), class) + 1]
  IN  count[1]

Terminals == {".", "?", "!"}   \* SENTENCE_PATTERN [.?!]+
Vowels == {"a", "e", "i", "o", "u"}   \* VOWEL_GROUP_PATTERN [aeiou]+
\* Joiners with the blank taken for a joiner.
Joiners_with_blank == {"-", "'", " "}
Joiners == {"-", "'"}   \* the [-'] of WORD_PATTERN

\* The ends e of the runs t[i..e] of letters that start at i: \p{L}+.
LetterRuns(t, i) ==
  {e \in i..Len(t) : \A k \in i..e : IsLetter(t[k])}

\* WORD_PATTERN \b(\p{L}+(?:[-']\p{L}+)?)\b tried at index i: the end of
\* the match, or 0.  The engine prefers the longest first run of letters,
\* then the optional group over its absence, then the group's longest run.
WordMatchEnd(t, i) ==
  LET withGroup(e1) ==
        IF e1 + 1 <= Len(t) /\ t[e1 + 1] \in Joiners
        THEN {e2 \in LetterRuns(t, e1 + 2) : Boundary(t, e2)}
        ELSE {}
      ok(e1) == withGroup(e1) # {} \/ Boundary(t, e1)
      firsts == {e1 \in LetterRuns(t, i) : ok(e1)}
  IN  IF ~Boundary(t, i - 1) \/ firsts = {} THEN 0
      ELSE LET e1 == Max(firsts)
           IN  IF withGroup(e1) # {} THEN Max(withGroup(e1)) ELSE e1

\* self.word.find_iter(t): the matched substrings, in order; the search
\* goes on from the end of each match.
FindWords(t) ==
  LET rest[from \in 1..(Len(t) + 1)] ==
        LET starts == {i \in from..Len(t) : WordMatchEnd(t, i) # 0}
        IN  IF starts = {} THEN << >>
            ELSE LET i == Min(starts)
                     e == WordMatchEnd(t, i)
                 IN  <<SubSeq(t, i, e)>> \o rest[e + 1]
  IN  rest[1]

-----------------------------------------------------------------------------
(* Kincaid.                                                                *)

\* usize subtraction.  When a < b the debug build panics and the release
\* build wraps modulo 2^64: the result keeps the mathematical difference
\* and flags it.
USub(a, b) == [val |-> a - b, underflow |-> a < b]

\* syllables_in_word with the guard off by one: count + add < sub.
syllables_in_word_guard_off_by_one(text) ==
  LET count == ClassRunCount(text, Vowels)
      add == SetMatchCount(ADD_PATTERNS, ADD_SPELLABLE, text)
      sub == SetMatchCount(SUB_PATTERNS, SUB_SPELLABLE, text)
  IN  IF count + add < sub
      THEN [val |-> 1, underflow |-> FALSE]
      ELSE USub(count + add, sub)

syllables_in_word(text) ==
  LET count == ClassRunCount(text, Vowels)
      add == SetMatchCount(ADD_PATTERNS, ADD_SPELLABLE, text)
      sub == SetMatchCount(SUB_PATTERNS, SUB_SPELLABLE, text)
  IN  IF count + add < sub + 1
      THEN [val |-> 1, underflow |-> FALSE]
      ELSE USub(count + add, sub)

word_count(text) == Len(FindWords(text))

\* sentence_count without the floor of 1.
sentence_count_no_floor(text) == ClassRunCount(text, Terminals)

sentence_count(text) ==
  LET n == ClassRunCount(text, Terminals) IN IF n < 1 THEN 1 ELSE n

syllable_count(text) ==
  LET ws == FindWords(text)
      sum[n \in 0..Len(ws)] ==
        IF n = 0 THEN 0 ELSE sum[n - 1] + syllables_in_word(ws[n]).val
  IN  sum[Len(ws)]

-----------------------------------------------------------------------------
(* f64.  A value is a fraction n/d in lowest terms with d > 0, or +inf,    *)
(* -inf or NaN.  Every zero that is divided by comes from a usize, so is   *)
(* +0.0.                                                                   *)

RECURSIVE Gcd(_, _)
Gcd(a, b) == IF b = 0 THEN a ELSE Gcd(b, a % b)
Abs(n) == IF n < 0 THEN -n ELSE n

Fin(n, d) ==
  LET g == Gcd(Abs(n), d) IN [k |-> "fin", n |-> n \div g, d |-> d \div g]
NaN == [k |-> "nan", n |-> 0, d |-> 1]
PInf == [k |-> "pinf", n |-> 0, d |-> 1]
NInf == [k |-> "ninf", n |-> 0, d |-> 1]

\* usize as f64
F64(n) == Fin(n, 1)

Sgn(x) ==
  IF x.k = "pinf" THEN 1 ELSE IF x.k = "ninf" THEN -1
  ELSE IF x.n > 0 THEN 1 ELSE IF x.n < 0 THEN -1 ELSE 0
Inf(s) == IF s > 0 THEN PInf ELSE NInf
IsInf(x) == x.k \in {"pinf", "ninf"}

FNeg(x) ==
  IF x.k = "fin" THEN Fin(-x.n, x.d)
  ELSE IF x.k = "pinf" THEN NInf ELSE IF x.k = "ninf" THEN PInf ELSE NaN

FAdd(x, y) ==
  IF x.k = "nan" \/ y.k = "nan" THEN NaN
  ELSE IF IsInf(x) /\ IsInf(y) THEN (IF x.k = y.k THEN x ELSE NaN)
  ELSE IF IsInf(x) THEN x
  ELSE IF IsInf(y) THEN y
  ELSE LET l == (x.d \div Gcd(x.d, y.d)) * y.d
       IN  Fin(x.n * (l \div x.d) + y.n * (l \div y.d), l)

FSub(x, y) == FAdd(x, FNeg(y))

FMul(x, y) ==
  IF x.k = "nan" \/ y.k = "nan" THEN NaN
  ELSE IF IsInf(x) \/ IsInf(y)
       THEN (IF Sgn(x) * Sgn(y) = 0 THEN NaN ELSE Inf(Sgn(x) * Sgn(y)))
  ELSE Fin(x.n * y.n, x.d * y.d)

FDiv(x, y) ==
  IF x.k = "nan" \/ y.k = "nan" THEN NaN
  ELSE IF IsInf(x) THEN (IF IsInf(y) THEN NaN
                         ELSE Inf(Sgn(x) * (IF Sgn(y) < 0 THEN -1 ELSE 1)))
  ELSE IF IsInf(y) THEN Fin(0, 1)
  ELSE IF y.n = 0 THEN (IF x.n = 0 THEN NaN ELSE Inf(Sgn(x)))
  ELSE Fin(Sgn(y) * x.n * y.d, x.d * Abs(y.n))

\* x < y; false when either is NaN.
FLt(x, y) ==
  IF x.k = "nan" \/ y.k = "nan" THEN FALSE
  ELSE IF x.k = "pinf" \/ y.k = "ninf" THEN FALSE
  ELSE IF x.k = "ninf" \/ y.k = "pinf" THEN TRUE
  ELSE x.n * y.d < y.n * x.d

\* x <= y; false when either is NaN.
FLe(x, y) == x.k # "nan" /\ y.k # "nan" /\ ~FLt(y, x)

\* f64::clamp
Clamp(x, min, max) ==
  IF FLt(x, min) THEN min ELSE IF FLt(max, x) THEN max ELSE x

-----------------------------------------------------------------------------
(* Scorer.                                                                 *)

Scorer_new == [words |-> 0, syllables |-> 0, sentences |-> 0]

\* add that overwrites the sentence total instead of adding to it.
Scorer_add_overwrites_sentences(s, text) ==
  [words |-> s.words + word_count(text),
   syllables |-> s.syllables + syllable_count(text),
   sentences |-> sentence_count(text)]

\* add that adds the syllables to the word total and the words to the
\* syllable total.
Scorer_add_swapped(s, text) ==
  [words |-> s.words + syllable_count(text),
   syllables |-> s.syllables + word_count(text),
   sentences |-> s.sentences + sentence_count(text)]

Scorer_add(s, text) ==
  [words |-> s.words + word_count(text),
   syllables |-> s.syllables + syllable_count(text),
   sentences |-> s.sentences + sentence_count(text)]

Scorer_grade_level(s) ==
  LET grade_level ==
        FSub(FAdd(FMul(Fin(39, 100), FDiv(F64(s.words), F64(s.sentences))),
                  FMul(Fin(118, 10), FDiv(F64(s.syllables), F64(s.words)))),
             Fin(159, 10))
  IN  IF FLt(grade_level, F64(1)) THEN F64(1) ELSE grade_level

Scorer_reading_ease(s) ==
  Clamp(FSub(FSub(Fin(206835, 1000),
                  FDiv(FMul(Fin(1015, 1000), F64(s.words)), F64(s.sentences))),
             FDiv(FMul(Fin(846, 10), F64(s.syllables)), F64(s.words))),
        F64(0), F64(100))

Kincaid_scorer == Scorer_new

\* The one-shot call without its add.
Kincaid_reading_ease_no_add(text) == Scorer_reading_ease(Kincaid_scorer)

Kincaid_reading_ease(text) ==
  LET score == Scorer_add(Kincaid_scorer, text) IN Scorer_reading_ease(score)

Kincaid_grade_level(text) ==
  LET score == Scorer_add(Kincaid_scorer, text) IN Scorer_grade_level(score)

-----------------------------------------------------------------------------
(* ReadingEase::description.                                               *)

\* The eight checks, in program order: lo..hi, or lo..=hi when closed.
Bands ==
  << [lo |-> 0, hi |-> 10, closed |-> FALSE, short |-> "Professional",
      long |-> "Extremely difficult to read. Best understood by university graduates."],
     [lo |-> 10, hi |-> 30, closed |-> FALSE, short |-> "College graduate",
      long |-> "Very difficult to read. Best understood by university graduates."],
     [lo |-> 30, hi |-> 50, closed |-> FALSE, short |-> "College",
      long |-> "Difficult to read."],
     [lo |-> 50, hi |-> 60, closed |-> FALSE, short |-> "10th to 12th grade",
      long |-> "Fairly difficult to read."],
     [lo |-> 60, hi |-> 70, closed |-> FALSE, short |-> "8th & 9th grade",
      long |-> "Plain English. Easily understood by 13- to 15-year-old students."],
     [lo |-> 70, hi |-> 80, closed |-> FALSE, short |-> "7th grade",
      long |-> "Fairly easy to read."],
     [lo |-> 80, hi |-> 90, closed |-> FALSE, short |-> "6th grade",
      long |-> "Easy to read. Conversational English for consumers."],
     [lo |-> 90, hi |-> 100, closed |-> TRUE, short |-> "5th grade",
      long |-> "Very easy to read. Easily understood by an average 11-year-old student."] >>

\* Every range taken for a closed one.
Contains_closed(band, x) == FLe(F64(band.lo), x) /\ FLe(x, F64(band.hi))

\* (lo..hi).contains(&x), (lo..=hi).contains(&x)
Contains(band, x) ==
  /\ FLe(F64(band.lo), x)
  /\ IF band.closed THEN FLe(x, F64(band.hi)) ELSE FLt(x, F64(band.hi))

\* The checks x satisfies.
BandChecks(x) == {i \in DOMAIN Bands : Contains(Bands[i], x)}

Label(i) == <<Bands[i].short, Bands[i].long>>

\* What description() can return: the label of the first check x satisfies.
\* When x satisfies none, control reaches unreachable_unchecked(), which is
\* undefined behaviour: the call may return any label, or not return.
description(x) ==
  IF BandChecks(x) # {} THEN {Label(Min(BandChecks(x)))}
  ELSE {Label(i) : i \in DOMAIN Bands} \cup {<<"abort", "abort">>}

ReachesUnreachable(x) == BandChecks(x) = {}

-----------------------------------------------------------------------------
(* Inputs.                                                                 *)

Texts == Strings(TextChars, MaxLen)
SeamTexts == Strings(SeamChars, MaxLen)
OrderTexts == Strings(ChunkChars, MaxLen)
AddTexts == Strings(ChunkChars, MaxAddLen)
SentenceTexts == Strings(SentenceChars, MaxSentenceLen)
\* The words syllables_in_word is called on: whole matches of WORD_PATTERN.
Tokens == {w \in Strings(WordChars, MaxWordLen) : FindWords(w) = <<w>>}
\* The ReadingEase values description is tried on: k / GridDen in [0, 100].
Grid == {Fin(k, GridDen) : k \in 0..(100 * GridDen)}

-----------------------------------------------------------------------------
(* State.                                                                  *)

Unit == "()"
Call(call, arg, n, val) == [call |-> call, arg |-> arg, n |-> n, val |-> val]
NoCall == Call("none", << >>, 0, Unit)

InitWith(in, r) ==
  /\ scorer = Scorer_new
  /\ adds = 0
  /\ hist = EmptyBag
  /\ input = in
  /\ joined = Scorer_new
  /\ joinedAdds = 0
  /\ ret = r
  /\ kept = NoCall
  /\ self = NaN
  /\ checks = {}
  /\ ub = FALSE

\* scorer.add(text)
Add(text) ==
  /\ adds < MaxAdds
  /\ scorer' = Scorer_add(scorer, text)
  /\ adds' = adds + 1
  /\ ret' = Call("Scorer::add", << >>, adds, Unit)
  /\ UNCHANGED <<hist, input, joined, joinedAdds, kept, self, checks, ub>>

\* scorer.add(text), the text logged
AddLogged(text) ==
  /\ adds < MaxChunks
  /\ scorer' = Scorer_add(scorer, text)
  /\ adds' = adds + 1
  /\ hist' = hist (+) SetToBag({text})
  /\ UNCHANGED <<input, joined, joinedAdds, ret, kept, self, checks, ub>>

\* scorer.add(text) on the caller's next text
AddNext ==
  /\ adds < Len(input)
  /\ scorer' = Scorer_add(scorer, input[adds + 1])
  /\ adds' = adds + 1
  /\ ret' = Call("Scorer::add", << >>, adds, Unit)
  /\ UNCHANGED <<hist, input, joined, joinedAdds, kept, self, checks, ub>>

Concat(in) == IF Len(in) = 2 THEN in[1] \o in[2] ELSE << >>

\* joined.add(a ++ b), joined being fresh
AddJoined ==
  /\ Len(input) = 2
  /\ joinedAdds = 0
  /\ joined' = Scorer_add(joined, Concat(input))
  /\ joinedAdds' = 1
  /\ UNCHANGED <<scorer, adds, hist, input, ret, kept, self, checks, ub>>

\* scorer.reading_ease()
ReadingEase ==
  /\ ret' = Call("Scorer::reading_ease", << >>, adds, Scorer_reading_ease(scorer))
  /\ UNCHANGED <<scorer, adds, hist, input, joined, joinedAdds, kept, self, checks, ub>>

\* scorer.grade_level()
GradeLevel ==
  /\ ret' = Call("Scorer::grade_level", << >>, adds, Scorer_grade_level(scorer))
  /\ UNCHANGED <<scorer, adds, hist, input, joined, joinedAdds, kept, self, checks, ub>>

\* kincaid.reading_ease(text)
KincaidReadingEase(text) ==
  /\ ret' = Call("Kincaid::reading_ease", text, 1, Kincaid_reading_ease(text))
  /\ UNCHANGED <<scorer, adds, hist, input, joined, joinedAdds, kept, self, checks, ub>>

\* kincaid.grade_level(text)
KincaidGradeLevel(text) ==
  /\ ret' = Call("Kincaid::grade_level", text, 1, Kincaid_grade_level(text))
  /\ UNCHANGED <<scorer, adds, hist, input, joined, joinedAdds, kept, self, checks, ub>>

\* kincaid.sentence_count(text)
SentenceCount(text) ==
  /\ ret' = Call("Kincaid::sentence_count", text, 0, sentence_count(text))
  /\ UNCHANGED <<scorer, adds, hist, input, joined, joinedAdds, kept, self, checks, ub>>

\* kincaid.syllables_in_word(text)
SyllablesInWord(text) ==
  /\ ret' = Call("Kincaid::syllables_in_word", text, 0, syllables_in_word(text))
  /\ UNCHANGED <<scorer, adds, hist, input, joined, joinedAdds, kept, self, checks, ub>>

IsEase(r) == r.call \in {"Scorer::reading_ease", "Kincaid::reading_ease", "ReadingEase"}
IsGrade(r) == r.call \in {"Scorer::grade_level", "Kincaid::grade_level"}

\* the caller keeps the score the last call returned
Keep ==
  /\ IsEase(ret) \/ IsGrade(ret)
  /\ kept' = ret
  /\ UNCHANGED <<scorer, adds, hist, input, joined, joinedAdds, ret, self, checks, ub>>

\* ret.description(), ret being a ReadingEase; the call consumes it
Description ==
  /\ IsEase(ret)
  /\ self' = ret.val
  /\ checks' = BandChecks(ret.val)
  /\ ub' = (ub \/ ReachesUnreachable(ret.val))
  /\ \E label \in description(ret.val) :
       ret' = Call("ReadingEase::description", << >>, 0, label)
  /\ UNCHANGED <<scorer, adds, hist, input, joined, joinedAdds, kept>>

-----------------------------------------------------------------------------
(* Specifications.                                                         *)

\* One Scorer, any texts added to it, its scores read and described.
Init == InitWith(<< >>, NoCall)
Next ==
  \/ \E text \in AddTexts : Add(text)
  \/ ReadingEase
  \/ GradeLevel
  \/ Description
Spec == Init /\ [][Next]_vars

\* One text: the Scorer is given it once, the one-shot calls are made on it.
InitOneShot == \E text \in Texts : InitWith(<<text>>, NoCall)
NextOneShot ==
  \/ AddNext
  \/ ReadingEase
  \/ GradeLevel
  \/ Keep
  \/ KincaidReadingEase(input[1])
  \/ KincaidGradeLevel(input[1])
SpecOneShot == InitOneShot /\ [][NextOneShot]_vars

\* Two texts: one Scorer is given them in turn, another their concatenation.
InitSeam == \E a, b \in SeamTexts : InitWith(<<a, b>>, NoCall)
NextSeam == AddNext \/ AddJoined
SpecSeam == InitSeam /\ [][NextSeam]_vars

\* One Scorer and the bag of the texts added to it.
NextOrder == \E text \in OrderTexts : AddLogged(text)
SpecOrder == Init /\ [][NextOrder]_vars

\* sentence_count on one text.
InitSentence == \E text \in SentenceTexts : InitWith(<<text>>, NoCall)
NextSentence == ret.call = "none" /\ SentenceCount(input[1])
SpecSentence == InitSentence /\ [][NextSentence]_vars

\* syllables_in_word on one word.
InitWord == \E w \in Tokens : InitWith(<<w>>, NoCall)
NextWord == ret.call = "none" /\ SyllablesInWord(input[1])
SpecWord == InitWord /\ [][NextWord]_vars

\* description() on one ReadingEase value of [0, 100].
InitBands == \E x \in Grid : InitWith(<< >>, Call("ReadingEase", << >>, 0, x))
NextBands == Description
SpecBands == InitBands /\ [][NextBands]_vars

-----------------------------------------------------------------------------
(* Properties.                                                             *)

InRange(x, lo, hi) == FLe(F64(lo), x) /\ FLe(x, F64(hi))

\* C1: whatever was added to the Scorer, nothing included, the score
\* reading_ease() returns lies in [0.0, 100.0]; so does the one-shot score.
ReadingEaseInRange ==
  ret.call \in {"Scorer::reading_ease", "Kincaid::reading_ease"} =>
    InRange(ret.val, 0, 100)

\* C2: whatever was added to the Scorer, nothing included, the score
\* grade_level() returns is at least 1.0; so is the one-shot score.
GradeLevelAtLeastOne ==
  ret.call \in {"Scorer::grade_level", "Kincaid::grade_level"} =>
    FLe(F64(1), ret.val)

\* C3: description() on a score reading_ease() produced returns from one
\* of its eight checks: unreachable_unchecked() is never reached.
UnreachableNeverReached == ~ub

\* The sum of count over the texts of bag B, each taken as often as B
\* holds it.
SumOfBag(B, count) ==
  LET sum[S \in SUBSET BagToSet(B)] ==
        IF S = {} THEN 0
        ELSE LET t == CHOOSE x \in S : TRUE
             IN  CopiesIn(t, B) * count[t] + sum[S \ {t}]
  IN  sum[BagToSet(B)]

\* C4: the totals of a Scorer are the sums of word_count, syllable_count
\* and sentence_count over the texts added to it, in whatever order they
\* were added: the totals are a function of the bag of the texts.
TotalsAreSumOfChunks ==
  /\ adds = BagCardinality(hist)
  /\ scorer =
       [words |-> SumOfBag(hist, [t \in BagToSet(hist) |-> word_count(t)]),
        syllables |->
          SumOfBag(hist, [t \in BagToSet(hist) |-> syllable_count(t)]),
        sentences |->
          SumOfBag(hist, [t \in BagToSet(hist) |-> sentence_count(t)])]
\* Two different texts were added; both hold a word, one ends a sentence.
TwoChunksAdded ==
  /\ Cardinality(BagToSet(hist)) = 2
  /\ \A t \in BagToSet(hist) : word_count(t) > 0
  /\ \E t \in BagToSet(hist) : t[Len(t)] = "."

\* C5: the one-shot reading_ease(t) and grade_level(t) return the score a
\* fresh Scorer returns after add(t) alone, whatever calls were made before.
OneShotIsFreshScorer ==
  /\ kept.call = "Scorer::reading_ease" /\ kept.n = 1
       /\ ret.call = "Kincaid::reading_ease"
     => ret.val = kept.val
  /\ kept.call = "Scorer::grade_level" /\ kept.n = 1
       /\ ret.call = "Kincaid::grade_level"
     => ret.val = kept.val
\* Both ways were taken on a text with words, and gave a number.
OneShotCompared ==
  /\ kept.call = "Scorer::reading_ease" /\ kept.n = 1
  /\ ret.call = "Kincaid::reading_ease"
  /\ word_count(input[1]) > 0
  /\ ret.val.k = "fin"

\* The maximal runs of characters of class in t, counted by their starts.
Runs(t, class) ==
  Cardinality({i \in 1..Len(t) :
                 /\ Fold(t[i]) \in class
                 /\ i = 1 \/ Fold(t[i - 1]) \notin class})

\* C6: sentence_count(t) is at least 1 and is the larger of 1 and the
\* number of maximal runs of '.', '?' and '!' in t; a text without any is
\* one sentence.
SentenceCountIsRunsFlooredAtOne ==
  ret.call = "Kincaid::sentence_count" =>
    /\ ret.val >= 1
    /\ ret.val = Max({1, Runs(ret.arg, {".", "?", "!"})})
    /\ Runs(ret.arg, {".", "?", "!"}) = 0 => ret.val = 1
\* A text with two runs, one of them of several characters, was counted.
TwoSentencesCounted ==
  /\ ret.call = "Kincaid::sentence_count"
  /\ ret.val = 2
  /\ Len(ret.arg) = 4
  /\ Cardinality({i \in 1..4 : ret.arg[i] \in {".", "?", "!"}}) = 3

\* C7: with v the vowel runs of w, a the ADD patterns and s the SUB
\* patterns that match w, syllables_in_word(w) is 1 when v + a < s + 1 and
\* v + a - s otherwise: at least 1, the larger of 1 and v + a - s, and its
\* subtraction never underflows.
SyllablesInWordIsFlooredAtOne ==
  ret.call = "Kincaid::syllables_in_word" =>
    LET v == Runs(ret.arg, {"a", "e", "i", "o", "u"})
        a == SetMatchCount(ADD_PATTERNS, ADD_SPELLABLE, ret.arg)
        s == SetMatchCount(SUB_PATTERNS, SUB_SPELLABLE, ret.arg)
    IN  /\ ret.val.val = IF v + a < s + 1 THEN 1 ELSE v + a - s
        /\ ret.val.val >= 1
        /\ ret.val.val = Max({1, v + a - s})
        /\ ~ret.val.underflow
\* A word whose raw estimate v + a - s is 0 was counted.
FlooredWordCounted ==
  /\ ret.call = "Kincaid::syllables_in_word"
  /\ Runs(ret.arg, {"a", "e", "i", "o", "u"}) > 0
  /\ Runs(ret.arg, {"a", "e", "i", "o", "u"})
       + SetMatchCount(ADD_PATTERNS, ADD_SPELLABLE, ret.arg)
     = SetMatchCount(SUB_PATTERNS, SUB_SPELLABLE, ret.arg)

\* Both Scorers of SpecSeam are done: add(a); add(b) and add(a ++ b).
SeamDone == Len(input) = 2 /\ adds = 2 /\ joinedAdds = 1

Inert(c) == ~IsWordChar(c) /\ c \notin {"-", "'"}
CleanSeam(a, b) ==
  Len(a) = 0 \/ Len(b) = 0 \/ Inert(a[Len(a)]) \/ Inert(b[1])

UpperBandOf(lo) ==
  CHOOSE l \in {"College graduate", "College", "10th to 12th grade",
                "8th & 9th grade", "7th grade", "6th grade", "5th grade"} :
    \/ lo = 10 /\ l = "College graduate"
    \/ lo = 30 /\ l = "College"
    \/ lo = 50 /\ l = "10th to 12th grade"
    \/ lo = 60 /\ l = "8th & 9th grade"
    \/ lo = 70 /\ l = "7th grade"
    \/ lo = 80 /\ l = "6th grade"
    \/ lo = 90 /\ l = "5th grade"

\* C9: a value of [0, 100] satisfies exactly one of the eight checks of
\* description(), which returns that band's label; 10, 30, 50, 60, 70, 80
\* and 90 get the label of the band they start, and 100 gets "5th grade".
DescriptionIsTotal ==
  ret.call = "ReadingEase::description" /\ InRange(self, 0, 100) =>
    /\ Cardinality(checks) = 1
    /\ ~ub
    /\ \A i \in checks : ret.val = Label(i)
    /\ \A lo \in {10, 30, 50, 60, 70, 80, 90} :
         self = F64(lo) => ret.val[1] = UpperBandOf(lo)
    /\ self = F64(100) => ret.val[1] = "5th grade"
\* The boundary 10 was described.
BoundaryDescribed ==
  /\ ret.call = "ReadingEase::description"
  /\ self = F64(10)
  /\ ret.val[1] = "College graduate"

\* C10: the sentence total is at least the number of add calls, so it is
\* 0 exactly when there was none; the syllable total is at least the word
\* total; the word total is 0 exactly when the syllable total is.
TotalsInvariant ==
  /\ scorer.sentences >= adds
  /\ scorer.sentences = 0 <=> adds = 0
  /\ scorer.syllables >= scorer.words
  /\ scorer.words = 0 <=> scorer.syllables = 0
\* Several adds, with words, more syllables than words, more sentences
\* than adds.
TotalsGrown ==
  /\ adds >= 2
  /\ scorer.words > 0
  /\ scorer.syllables > scorer.words
  /\ scorer.sentences > adds

====
